---- MODULE Spec2Model ----
(***************************************************************************)
(* Model of the Face Gender Detector front end.                            *)
(*                                                                         *)
(*   - detectGenderFromImage  (src/services/geminiService.ts 12-52)        *)
(*   - the App component: its six state cells, the video/canvas refs and   *)
(*     the handlers resetState, handleImageUpload, startCamera,            *)
(*     captureImage, handleDetectGender (same file, 62-297)                *)
(*   - the environment: FileReader completions, getUserMedia grants and    *)
(*     denials, the vision model's replies, component teardown.            *)
(*                                                                         *)
(* JavaScript is single threaded: every handler runs to its next await,    *)
(* so each action below is one handler segment together with the render    *)
(* that follows it.  Strings the code inspects character by character      *)
(* (MIME types, the model's reply) are sequences of one-character strings. *)
(***************************************************************************)
EXTENDS Integers, Sequences, FiniteSets, TLC

(***************************************************************************)
(* Bounds of the exploration.                                              *)
(***************************************************************************)
MaxStreams == 2      \* getUserMedia calls that may be granted or pending
MaxReaders == 2      \* FileReaders that may be pending at once
MaxInflight == 2     \* generateContent calls that may be pending at once

(***************************************************************************)
(* JavaScript null, for string-valued and for object-valued cells.         *)
(***************************************************************************)
null == "null"
nullObj == [kind |-> "null"]
undefined == "undefined"
NoStream == 0

(***************************************************************************)
(* Character-level string helpers.                                         *)
(***************************************************************************)
\* String.prototype.startsWith
StartsWith(s, p) ==
    /\ Len(s) >= Len(p)
    /\ SubSeq(s, 1, Len(p)) = p

\* String.prototype.includes
Includes(s, sub) ==
    \E i \in 1..(Len(s) - Len(sub) + 1) : SubSeq(s, i, i + Len(sub) - 1) = sub

Upper == <<"A","B","C","D","E","F","G","H","I","J","K","L","M",
           "N","O","P","Q","R","S","T","U","V","W","X","Y","Z">>
Lower == <<"a","b","c","d","e","f","g","h","i","j","k","l","m",
           "n","o","p","q","r","s","t","u","v","w","x","y","z">>

LowerChar(c) ==
    IF \E i \in 1..26 : Upper[i] = c
    THEN Lower[CHOOSE i \in 1..26 : Upper[i] = c]
    ELSE c

\* String.prototype.toLowerCase
ToLowerCase(s) == [i \in 1..Len(s) |-> LowerChar(s[i])]

WhiteSpace == {" ", "\n", "\t"}

RECURSIVE TrimStart(_)
TrimStart(s) ==
    IF s # <<>> /\ Head(s) \in WhiteSpace THEN TrimStart(Tail(s)) ELSE s

RECURSIVE TrimEnd(_)
TrimEnd(s) ==
    IF s # <<>> /\ s[Len(s)] \in WhiteSpace
    THEN TrimEnd(SubSeq(s, 1, Len(s) - 1))
    ELSE s

\* String.prototype.trim
Trim(s) == TrimEnd(TrimStart(s))

(***************************************************************************)
(* detectGenderFromImage: normalisation of the reply text.                 *)
(***************************************************************************)
sMale == <<"M","a","l","e">>
sFemale == <<"F","e","m","a","l","e">>
sIndeterminate == <<"I","n","d","e","t","e","r","m","i","n","a","t","e">>
sNoFaceDetected == <<"N","o","F","a","c","e","D","e","t","e","c","t","e","d">>

Keyword(t) ==
    CASE t = sMale -> "Male"
      [] t = sFemale -> "Female"
      [] t = sIndeterminate -> "Indeterminate"
      [] t = sNoFaceDetected -> "NoFaceDetected"

\* NormalizeText without the trim() of line 35.
NormalizeTextNoTrim(text) ==
    LET textResult == text
        low == ToLowerCase(textResult)
    IN  IF textResult \in {sMale, sFemale, sIndeterminate, sNoFaceDetected}
        THEN Keyword(textResult)
        ELSE IF Includes(low, <<"m","a","l","e">>) THEN "Male"
        ELSE IF Includes(low, <<"f","e","m","a","l","e">>) THEN "Female"
        ELSE IF Includes(low, <<"i","n","d","e","t","e","r","m","i","n","a","t","e">>)
             THEN "Indeterminate"
        ELSE IF \/ Includes(low, <<"n","o"," ","f","a","c","e">>)
                \/ Includes(low, <<"n","o","f","a","c","e","d","e","t","e","c","t","e","d">>)
             THEN "NoFaceDetected"
        ELSE "Indeterminate"

\* NormalizeText with the "female" test of line 43 ahead of the "male" test.
NormalizeTextFemaleFirst(text) ==
    LET textResult == Trim(text)
        low == ToLowerCase(textResult)
    IN  IF textResult \in {sMale, sFemale, sIndeterminate, sNoFaceDetected}
        THEN Keyword(textResult)
        ELSE IF Includes(low, <<"f","e","m","a","l","e">>) THEN "Female"
        ELSE IF Includes(low, <<"m","a","l","e">>) THEN "Male"
        ELSE IF Includes(low, <<"i","n","d","e","t","e","r","m","i","n","a","t","e">>)
             THEN "Indeterminate"
        ELSE IF \/ Includes(low, <<"n","o"," ","f","a","c","e">>)
                \/ Includes(low, <<"n","o","f","a","c","e","d","e","t","e","c","t","e","d">>)
             THEN "NoFaceDetected"
        ELSE "Indeterminate"

\* NormalizeText with Error in place of the default of line 46.
NormalizeTextDefaultError(text) ==
    LET textResult == Trim(text)
        low == ToLowerCase(textResult)
    IN  IF textResult \in {sMale, sFemale, sIndeterminate, sNoFaceDetected}
        THEN Keyword(textResult)
        ELSE IF Includes(low, <<"m","a","l","e">>) THEN "Male"
        ELSE IF Includes(low, <<"f","e","m","a","l","e">>) THEN "Female"
        ELSE IF Includes(low, <<"i","n","d","e","t","e","r","m","i","n","a","t","e">>)
             THEN "Indeterminate"
        ELSE IF \/ Includes(low, <<"n","o"," ","f","a","c","e">>)
                \/ Includes(low, <<"n","o","f","a","c","e","d","e","t","e","c","t","e","d">>)
             THEN "NoFaceDetected"
        ELSE "Error"

NormalizeText(text) ==
    LET textResult == Trim(text)
        low == ToLowerCase(textResult)
    IN  IF textResult \in {sMale, sFemale, sIndeterminate, sNoFaceDetected}
        THEN Keyword(textResult)
        ELSE IF Includes(low, <<"m","a","l","e">>) THEN "Male"
        ELSE IF Includes(low, <<"f","e","m","a","l","e">>) THEN "Female"
        ELSE IF Includes(low, <<"i","n","d","e","t","e","r","m","i","n","a","t","e">>)
             THEN "Indeterminate"
        ELSE IF \/ Includes(low, <<"n","o"," ","f","a","c","e">>)
                \/ Includes(low, <<"n","o","f","a","c","e","d","e","t","e","c","t","e","d">>)
             THEN "NoFaceDetected"
        ELSE "Indeterminate"

(***************************************************************************)
(* What the awaited generateContent call can deliver.                      *)
(***************************************************************************)
Texts ==
    { sMale, sFemale, sIndeterminate, sNoFaceDetected,
      <<" ","F","e","m","a","l","e","\n">>,
      <<"I"," ","b","e","l","i","e","v","e"," ","t","h","i","s"," ",
        "i","s"," ","F","e","m","a","l","e",".">>,
      <<"N","o"," ","f","a","c","e"," ","f","o","u","n","d">>,
      <<"u","n","c","l","e","a","r">>,
      <<>> }

Replies ==
    [kind : {"text"}, text : Texts]
      \cup { [kind |-> "transportFailure", text |-> <<>>],
             [kind |-> "noText", text |-> <<>>] }

\* The try block of detectGenderFromImage, lines 20-51: the value the
\* returned promise resolves to for a given outcome of the round trip.
NoReply == [kind |-> "none", text |-> <<>>]

(***************************************************************************)
(* A wider set of reply texts, for the normalisation on its own: every     *)
(* keyword with whitespace around it, and texts for each substring rule.   *)
(***************************************************************************)
Pads == { <<>>, <<" ">>, <<"\n">>, <<"\t", " ">> }

Keywords == {sMale, sFemale, sIndeterminate, sNoFaceDetected}

AllTexts ==
    Texts \cup
    { l \o k \o r : l \in Pads, k \in Keywords, r \in Pads } \cup
    { <<"f","e","m","a","l","e">>,
      <<"F","E","M","A","L","E">>,
      <<"M","A","L","E">>,
      <<"m","a","l","e"," ","o","r"," ","i","n","d","e","t","e","r","m","i","n","a","t","e">>,
      <<"I","n","d","e","t","e","r","m","i","n","a","t","e",","," ","n","o"," ","f","a","c","e">>,
      <<"n","o","f","a","c","e","d","e","t","e","c","t","e","d">>,
      <<"N","o"," ","F","a","c","e">>,
      <<" ">> }

AllReplies ==
    [kind : {"text"}, text : AllTexts]
      \cup { [kind |-> "transportFailure", text |-> <<>>],
             [kind |-> "noText", text |-> <<>>] }

TryBlock(reply) ==
    IF reply.kind = "text" THEN NormalizeText(reply.text) ELSE "Error"

Settled == {"Male", "Female", "Indeterminate", "NoFaceDetected", "Error"}

(***************************************************************************)
(* Files the user may pick.  The accept attribute of the file input only   *)
(* filters the picker's default view, so any file can arrive in onChange.  *)
(***************************************************************************)
MaxFileSize == 4 * 1024 * 1024

tPng == <<"i","m","a","g","e","/","p","n","g">>
tJpeg == <<"i","m","a","g","e","/","j","p","e","g">>
tWebp == <<"i","m","a","g","e","/","w","e","b","p">>
tGif == <<"i","m","a","g","e","/","g","i","f">>
tHeic == <<"i","m","a","g","e","/","h","e","i","c">>
tHeif == <<"i","m","a","g","e","/","h","e","i","f">>
tBmp == <<"i","m","a","g","e","/","b","m","p">>
tText == <<"t","e","x","t","/","p","l","a","i","n">>

\* accept="image/png, image/jpeg, image/webp, image/gif, image/heic, image/heif"
AcceptList == {tPng, tJpeg, tWebp, tGif, tHeic, tHeif}

Files ==
    { [name |-> "edge.png", type |-> tPng, size |-> MaxFileSize],
      [name |-> "face.webp", type |-> tWebp, size |-> 1],
      [name |-> "big.jpg", type |-> tJpeg, size |-> MaxFileSize + 1],
      [name |-> "scan.bmp", type |-> tBmp, size |-> 1],
      [name |-> "notes.txt", type |-> tText, size |-> 1] }

NoFile == [name |-> "", type |-> <<>>, size |-> 0]

\* A data URL "data:<mediatype>[;base64],<payload>", kept as the text before
\* its comma and the text after it.  Payloads stand for the encoded bytes.
DataUrl(mediatype, payload) ==
    [kind |-> "data", mediatype |-> mediatype, payload |-> payload]

\* FileReader.readAsDataURL
ReadAsDataURL(file) == DataUrl(file.type, file.name)

\* canvas.toDataURL('image/jpeg'): a canvas of zero width or height
\* serialises to "data:,".
ToDataURL(hasFrame) ==
    IF hasFrame THEN DataUrl(tJpeg, "frame") ELSE DataUrl(<<>>, "")

\* dataUrl.split(',')[1]
Base64Part(dataUrl) == dataUrl.payload

ImageData(base64, mimeType, name) ==
    [kind |-> "ImageData", base64 |-> base64, mimeType |-> mimeType, name |-> name]

\* URL.createObjectURL(file)
CreateObjectURL(file) == [kind |-> "blob", mediatype |-> <<>>, payload |-> file.name]

(***************************************************************************)
(* User-facing messages.                                                   *)
(***************************************************************************)
MsgInvalidType == "Invalid file type. Please upload an image (JPEG, PNG, WEBP, GIF, HEIC, HEIF)."
MsgTooLarge == "Image too large. Maximum size is 4MB."
MsgReadFailed == "Failed to read file."
MsgCamera == "Could not access camera. Please ensure permissions are granted."
MsgNoImage == "Please select an image first."
MsgNoKey == "API Key is not configured. Please check application setup."
MsgDetectFailed == "Failed to detect gender. The API might be unavailable or an error occurred. Check console for details."

(***************************************************************************)
(* State.                                                                  *)
(***************************************************************************)
VARIABLES
    API_KEY,        \* TRUE iff process.env.API_KEY is a non-empty string
    mounted,        \* the App component is mounted
    selectedImage,  \* useState<ImageData | null>
    previewUrl,     \* useState<string | null>
    genderResult,   \* useState<GenderResult>
    isLoading,      \* useState<boolean>
    error,          \* useState<string | null>
    isCameraMode,   \* useState<boolean>
    srcObject,      \* videoRef.current.srcObject, NoStream when null or no video element
    liveStreams,    \* granted MediaStreams whose tracks have not been stopped
    nStreams,       \* number of MediaStreams granted so far
    pendingMedia,   \* getUserMedia promises not yet settled
    readers,        \* files of the FileReaders still reading
    inflight,       \* ImageData of the generateContent calls not yet settled
    promise,        \* state of the promise of the latest detectGenderFromImage call
    resultOf,       \* the ImageData the committed genderResult was computed from
    resetSinceSubmit, \* resetState has run since the oldest pending request was sent
    lastReply,      \* what generateContent delivered to the latest settled call
    threw           \* the last handler segment ended in an uncaught exception

vars == <<API_KEY, mounted, selectedImage, previewUrl, genderResult, isLoading,
          error, isCameraMode, srcObject, liveStreams, nStreams, pendingMedia,
          readers, inflight, promise, resultOf, resetSinceSubmit, lastReply, threw>>

Init ==
    /\ API_KEY \in BOOLEAN
    /\ mounted = TRUE
    /\ selectedImage = nullObj
    /\ previewUrl = nullObj
    /\ genderResult = null
    /\ isLoading = FALSE
    /\ error = null
    /\ isCameraMode = FALSE
    /\ srcObject = NoStream
    /\ liveStreams = {}
    /\ nStreams = 0
    /\ pendingMedia = 0
    /\ readers = <<>>
    /\ inflight = <<>>
    /\ promise = "none"
    /\ resultOf = nullObj
    /\ resetSinceSubmit = FALSE
    /\ lastReply = NoReply
    /\ threw = FALSE

(***************************************************************************)
(* Rendering: which elements exist and which buttons accept a click.       *)
(***************************************************************************)
\* {isCameraMode && !previewUrl && (<video ref={videoRef}> <canvas ref={canvasRef}>)}
VideoShown(cam, prev) == cam /\ prev = nullObj

\* videoRef.current (and canvasRef.current) is non-null
VideoMounted == mounted /\ VideoShown(isCameraMode, previewUrl)

\* srcObject of the video element after a render: the element, and with it
\* its srcObject, exists only while the video is shown.
Rendered(stream, cam, prev) == IF VideoShown(cam, prev) THEN stream ELSE NoStream

\* The Detect Gender button rendered without the !isCameraMode condition.
DetectEnabledInCameraMode ==
    /\ selectedImage # nullObj /\ previewUrl # nullObj
    /\ ~(isLoading \/ selectedImage = nullObj)

\* Upload Image button: disabled={isLoading || isCameraMode}
UploadEnabled == ~(isLoading \/ isCameraMode)

\* camera button: disabled={isLoading && !isCameraMode}
CameraButtonEnabled == ~(isLoading /\ ~isCameraMode)

\* The Detect Gender button with its disabled attribute left out.
DetectEnabledNotDisabled ==
    selectedImage # nullObj /\ previewUrl # nullObj /\ ~isCameraMode

\* Detect Gender button: rendered when selectedImage && previewUrl &&
\* !isCameraMode, disabled={isLoading || !selectedImage}
DetectEnabled ==
    /\ selectedImage # nullObj /\ previewUrl # nullObj /\ ~isCameraMode
    /\ ~(isLoading \/ selectedImage = nullObj)

\* Clear / Reset button: rendered when selectedImage || isCameraMode,
\* disabled={isLoading && isCameraMode}
ResetEnabled ==
    /\ selectedImage # nullObj \/ isCameraMode
    /\ ~(isLoading /\ isCameraMode)

(***************************************************************************)
(* resetState, as a function of the cells it reads and writes.  The tracks *)
(* are stopped only when a video element is mounted (videoRef.current) and *)
(* has a stream attached; the render that follows removes the video.       *)
(***************************************************************************)
Cur ==
    [selectedImage |-> selectedImage, previewUrl |-> previewUrl,
     genderResult |-> genderResult, error |-> error, isCameraMode |-> isCameraMode,
     videoRef |-> VideoMounted, srcObject |-> srcObject, liveStreams |-> liveStreams]

ResetState(st) ==
    [selectedImage |-> nullObj,
     previewUrl |-> nullObj,
     genderResult |-> null,
     error |-> null,
     isCameraMode |-> FALSE,
     videoRef |-> FALSE,
     srcObject |-> NoStream,
     liveStreams |-> IF st.videoRef /\ st.srcObject # NoStream
                     THEN st.liveStreams \ {st.srcObject}
                     ELSE st.liveStreams]

(***************************************************************************)
(* handleImageUpload, up to reader.readAsDataURL(file).                    *)
(***************************************************************************)
\* file.type.startsWith('image/')
IsImageType(type) == StartsWith(type, <<"i","m","a","g","e","/">>)

\* the two checks a file passes before a FileReader is started
FileAccepted(file) == IsImageType(file.type) /\ ~(file.size > MaxFileSize)

UploadError(file) ==
    IF ~IsImageType(file.type) THEN MsgInvalidType
    ELSE IF file.size > MaxFileSize THEN MsgTooLarge
    ELSE null

HandleImageUpload(file) ==
    /\ mounted
    /\ UploadEnabled
    /\ Len(readers) < MaxReaders
    /\ LET r == ResetState(Cur)
       IN  /\ selectedImage' = r.selectedImage
           /\ previewUrl' = r.previewUrl
           /\ genderResult' = r.genderResult
           /\ liveStreams' = r.liveStreams
           /\ isCameraMode' = r.isCameraMode
           /\ srcObject' = r.srcObject
           \* if (file) { ... }
           /\ IF file = NoFile
              THEN error' = r.error /\ readers' = readers
              ELSE /\ error' = UploadError(file)
                   /\ readers' = IF FileAccepted(file) THEN Append(readers, file)
                                 ELSE readers
    /\ resultOf' = nullObj
    /\ resetSinceSubmit' = (resetSinceSubmit \/ inflight # <<>>)
    /\ threw' = FALSE
    /\ UNCHANGED <<lastReply, API_KEY, mounted, isLoading, nStreams, pendingMedia, inflight, promise>>

RemoveAt(seq, i) == SubSeq(seq, 1, i - 1) \o SubSeq(seq, i + 1, Len(seq))

(***************************************************************************)
(* reader.onloadend after a successful read.                               *)
(***************************************************************************)
ReaderLoadEnd(i) ==
    /\ i \in 1..Len(readers)
    /\ readers' = RemoveAt(readers, i)
    /\ IF mounted
       THEN LET file == readers[i]
                base64WithPrefix == ReadAsDataURL(file)
                base64Data == Base64Part(base64WithPrefix)
            IN  /\ selectedImage' = ImageData(base64Data, file.type, file.name)
                /\ previewUrl' = CreateObjectURL(file)
                /\ srcObject' = Rendered(srcObject, isCameraMode, previewUrl')
       ELSE UNCHANGED <<selectedImage, previewUrl, srcObject>>
    /\ threw' = FALSE
    /\ UNCHANGED <<lastReply, resetSinceSubmit, API_KEY, mounted, genderResult, isLoading, error, isCameraMode,
                   liveStreams, nStreams, pendingMedia, inflight, promise, resultOf>>

(***************************************************************************)
(* A failed read: reader.onerror, then reader.onloadend with               *)
(* reader.result === null, whose split call throws a TypeError.            *)
(***************************************************************************)
ReaderError(i) ==
    /\ i \in 1..Len(readers)
    /\ readers' = RemoveAt(readers, i)
    /\ error' = IF mounted THEN MsgReadFailed ELSE error
    /\ threw' = TRUE
    /\ UNCHANGED <<lastReply, resetSinceSubmit, API_KEY, mounted, selectedImage, previewUrl, genderResult, isLoading,
                   isCameraMode, srcObject, liveStreams, nStreams, pendingMedia,
                   inflight, promise, resultOf>>

(***************************************************************************)
(* startCamera, up to the await of getUserMedia.                           *)
(***************************************************************************)
StartCamera ==
    /\ mounted
    /\ ~isCameraMode              \* onClick={isCameraMode ? captureImage : startCamera}
    /\ CameraButtonEnabled
    /\ nStreams + pendingMedia < MaxStreams
    /\ LET r == ResetState(Cur)
       IN  /\ selectedImage' = r.selectedImage
           /\ previewUrl' = r.previewUrl
           /\ genderResult' = r.genderResult
           /\ error' = r.error
           /\ liveStreams' = r.liveStreams
           /\ srcObject' = r.srcObject
    \* setIsCameraMode(true): the render mounts a fresh video element
    /\ isCameraMode' = TRUE
    /\ pendingMedia' = pendingMedia + 1
    /\ resultOf' = nullObj
    /\ resetSinceSubmit' = (resetSinceSubmit \/ inflight # <<>>)
    /\ threw' = FALSE
    /\ UNCHANGED <<lastReply, API_KEY, mounted, isLoading, nStreams, readers, inflight, promise>>

(***************************************************************************)
(* startCamera after the await: the environment grants a stream.           *)
(***************************************************************************)
CameraGranted ==
    /\ pendingMedia > 0
    /\ pendingMedia' = pendingMedia - 1
    /\ nStreams' = nStreams + 1
    /\ liveStreams' = liveStreams \cup {nStreams + 1}
    \* if (videoRef.current) videoRef.current.srcObject = stream
    /\ srcObject' = IF VideoMounted THEN nStreams + 1 ELSE srcObject
    /\ threw' = FALSE
    /\ UNCHANGED <<lastReply, resetSinceSubmit, API_KEY, mounted, selectedImage, previewUrl, genderResult, isLoading,
                   error, isCameraMode, readers, inflight, promise, resultOf>>

(***************************************************************************)
(* startCamera after the await: getUserMedia rejects.                      *)
(***************************************************************************)
CameraDenied ==
    /\ pendingMedia > 0
    /\ pendingMedia' = pendingMedia - 1
    /\ IF mounted
       THEN /\ error' = MsgCamera
            /\ isCameraMode' = FALSE
            /\ srcObject' = NoStream
       ELSE UNCHANGED <<error, isCameraMode, srcObject>>
    /\ threw' = FALSE
    /\ UNCHANGED <<lastReply, resetSinceSubmit, API_KEY, mounted, selectedImage, previewUrl, genderResult, isLoading,
                   liveStreams, nStreams, readers, inflight, promise, resultOf>>

(***************************************************************************)
(* captureImage.  hasFrame: the video has decoded a frame of its stream    *)
(* (videoWidth and videoHeight are non-zero).                              *)
(***************************************************************************)
CaptureImage(hasFrame) ==
    /\ mounted
    /\ isCameraMode               \* onClick={isCameraMode ? captureImage : startCamera}
    /\ CameraButtonEnabled
    /\ hasFrame => srcObject # NoStream
    /\ IF VideoMounted
       THEN LET dataUrl == ToDataURL(hasFrame)
                base64Data == Base64Part(dataUrl)
            IN  /\ selectedImage' = ImageData(base64Data, tJpeg, undefined)
                /\ previewUrl' = dataUrl
                /\ srcObject' = NoStream
                /\ IF srcObject = NoStream
                   THEN \* stream.getTracks() on null: TypeError
                        /\ threw' = TRUE
                        /\ UNCHANGED <<liveStreams, isCameraMode>>
                   ELSE /\ threw' = FALSE
                        /\ liveStreams' = liveStreams \ {srcObject}
                        /\ isCameraMode' = FALSE
       ELSE /\ threw' = FALSE
            /\ UNCHANGED <<selectedImage, previewUrl, srcObject, liveStreams, isCameraMode>>
    /\ UNCHANGED <<lastReply, resetSinceSubmit, API_KEY, mounted, genderResult, isLoading, error, nStreams,
                   pendingMedia, readers, inflight, promise, resultOf>>

(***************************************************************************)
(* handleDetectGender, up to the await of detectGenderFromImage.           *)
(* clientOk: new GoogleGenAI(...) returns; it is called before the try     *)
(* block, so when it throws the promise of detectGenderFromImage rejects   *)
(* and the await in handleDetectGender rethrows.                           *)
(***************************************************************************)
\* CallDetect without the API_KEY test of lines 13-16.
CallDetectNoKeyCheck(clientOk) ==
    IF ~clientOk THEN "rejected" ELSE "pending"

\* detectGenderFromImage up to its await: the state of the promise it returns
CallDetect(clientOk) ==
    IF ~API_KEY THEN "Error"
    ELSE IF ~clientOk THEN "rejected"
    ELSE "pending"

\* handleDetectGender without the setGenderResult(null) of line 174.
HandleDetectGenderKeepsResult(clientOk) ==
    /\ mounted
    /\ DetectEnabled
    /\ Len(inflight) < MaxInflight
    /\ ~(selectedImage = nullObj) /\ API_KEY
    /\ isLoading' = TRUE
    /\ error' = null
    /\ promise' = CallDetect(clientOk)
    /\ inflight' = IF promise' = "pending" THEN Append(inflight, selectedImage) ELSE inflight
    /\ threw' = (promise' = "rejected")
    /\ resetSinceSubmit' = (resetSinceSubmit /\ inflight # <<>>)
    /\ UNCHANGED <<genderResult, resultOf, lastReply, API_KEY, mounted, selectedImage,
                   previewUrl, isCameraMode, srcObject, liveStreams, nStreams,
                   pendingMedia, readers>>

\* The two early returns of handleDetectGender (lines 164-171): the message
\* set, or null when the handler goes on to submit.
EarlyReturn(image) ==
    IF image = nullObj THEN MsgNoImage
    ELSE IF ~API_KEY THEN MsgNoKey
    ELSE null

HandleDetectGender(clientOk) ==
    /\ mounted
    /\ DetectEnabled
    /\ Len(inflight) < MaxInflight
    /\ IF EarlyReturn(selectedImage) # null
       THEN /\ error' = EarlyReturn(selectedImage)
            /\ threw' = FALSE
            /\ UNCHANGED <<genderResult, resultOf, isLoading, inflight, promise,
                           resetSinceSubmit>>
       ELSE /\ isLoading' = TRUE
            /\ genderResult' = null
            /\ resultOf' = nullObj
            /\ error' = null
            /\ promise' = CallDetect(clientOk)
            /\ inflight' = IF promise' = "pending"
                           THEN Append(inflight, selectedImage)
                           ELSE inflight
            /\ threw' = (promise' = "rejected")
            /\ resetSinceSubmit' = (resetSinceSubmit /\ inflight # <<>>)
    /\ UNCHANGED <<lastReply, API_KEY, mounted, selectedImage, previewUrl, isCameraMode, srcObject,
                   liveStreams, nStreams, pendingMedia, readers>>

\* ClassifyResponse with setGenderResult(result) run for every result, the
\* test of line 179 left out.
ClassifyResponseStoresError(i, reply) ==
    /\ i \in 1..Len(inflight)
    /\ inflight' = RemoveAt(inflight, i)
    /\ promise' = TryBlock(reply)
    /\ lastReply' = reply
    /\ resetSinceSubmit' = (resetSinceSubmit /\ inflight' # <<>>)
    /\ IF mounted
       THEN /\ genderResult' = TryBlock(reply)
            /\ resultOf' = inflight[i]
            /\ error' = error
            /\ isLoading' = FALSE
       ELSE UNCHANGED <<genderResult, resultOf, error, isLoading>>
    /\ threw' = FALSE
    /\ UNCHANGED <<API_KEY, mounted, selectedImage, previewUrl, isCameraMode, srcObject,
                   liveStreams, nStreams, pendingMedia, readers>>

(***************************************************************************)
(* The generateContent call of request i settles with reply: the rest of   *)
(* detectGenderFromImage, then the rest of handleDetectGender.             *)
(***************************************************************************)
ClassifyResponse(i, reply) ==
    /\ i \in 1..Len(inflight)
    /\ inflight' = RemoveAt(inflight, i)
    /\ promise' = TryBlock(reply)
    /\ lastReply' = reply
    /\ resetSinceSubmit' = (resetSinceSubmit /\ inflight' # <<>>)
    /\ LET result == TryBlock(reply)
       IN  IF mounted
           THEN /\ IF result = "Error"
                   THEN /\ error' = MsgDetectFailed
                        /\ UNCHANGED <<genderResult, resultOf>>
                   ELSE /\ genderResult' = result
                        /\ resultOf' = inflight[i]
                        /\ error' = error
                /\ isLoading' = FALSE
           ELSE UNCHANGED <<genderResult, resultOf, error, isLoading>>
    /\ threw' = FALSE
    /\ UNCHANGED <<API_KEY, mounted, selectedImage, previewUrl, isCameraMode, srcObject,
                   liveStreams, nStreams, pendingMedia, readers>>

(***************************************************************************)
(* The Clear / Reset button: resetState, then the file input is cleared.   *)
(***************************************************************************)
ClickReset ==
    /\ mounted
    /\ ResetEnabled
    /\ LET r == ResetState(Cur)
       IN  /\ selectedImage' = r.selectedImage
           /\ previewUrl' = r.previewUrl
           /\ genderResult' = r.genderResult
           /\ error' = r.error
           /\ liveStreams' = r.liveStreams
           /\ srcObject' = r.srcObject
           /\ isCameraMode' = r.isCameraMode
    /\ resultOf' = nullObj
    /\ resetSinceSubmit' = (resetSinceSubmit \/ inflight # <<>>)
    /\ threw' = FALSE
    /\ UNCHANGED <<lastReply, API_KEY, mounted, isLoading, nStreams, pendingMedia, readers,
                   inflight, promise>>

(***************************************************************************)
(* The close button of the Alert: setError(null).                          *)
(***************************************************************************)
DismissError ==
    /\ mounted
    /\ error # null
    /\ error' = null
    /\ threw' = FALSE
    /\ UNCHANGED <<lastReply, resetSinceSubmit, API_KEY, mounted, selectedImage, previewUrl, genderResult, isLoading,
                   isCameraMode, srcObject, liveStreams, nStreams, pendingMedia,
                   readers, inflight, promise, resultOf>>

(***************************************************************************)
(* Teardown of the component.  The only cleanup the component registers    *)
(* revokes a blob preview URL; the video element goes away with its        *)
(* srcObject, and no track is stopped.                                     *)
(***************************************************************************)
Unmount ==
    /\ mounted
    /\ mounted' = FALSE
    /\ srcObject' = NoStream
    /\ threw' = FALSE
    /\ UNCHANGED <<lastReply, resetSinceSubmit, API_KEY, selectedImage, previewUrl, genderResult, isLoading, error,
                   isCameraMode, liveStreams, nStreams, pendingMedia, readers,
                   inflight, promise, resultOf>>

Next ==
    \/ \E file \in Files \cup {NoFile} : HandleImageUpload(file)
    \/ \E i \in 1..MaxReaders + 1 : ReaderLoadEnd(i)
    \/ \E i \in 1..MaxReaders + 1 : ReaderError(i)
    \/ StartCamera
    \/ CameraGranted
    \/ CameraDenied
    \/ \E hasFrame \in BOOLEAN : CaptureImage(hasFrame)
    \/ \E clientOk \in BOOLEAN : HandleDetectGender(clientOk)
    \/ \E i \in 1..MaxInflight + 1, reply \in Replies : ClassifyResponse(i, reply)
    \/ ClickReset
    \/ DismissError
    \/ Unmount

Spec == Init /\ [][Next]_vars

TypeOK ==
    /\ genderResult \in {null, "Male", "Female", "Indeterminate", "NoFaceDetected", "Error"}
    /\ promise \in {"none", "pending", "rejected"} \cup Settled
    /\ srcObject \in 0..nStreams
    /\ liveStreams \subseteq 1..nStreams

(***************************************************************************)
(* Properties.                                                             *)
(***************************************************************************)
AnyResponse == \E i \in 1..MaxInflight + 1, reply \in Replies : ClassifyResponse(i, reply)

\* C1: when resetState has run while a classification was in flight, the
\* arrival of that classification's response commits no result (genderResult
\* stays null) and sets no error message.
C1_ResponseDiscardedAfterReset ==
    [][(resetSinceSubmit /\ mounted /\ AnyResponse)
          => (genderResult' = null /\ error' = error)]_vars

\* C2: whenever a result is live and an ImageData is held, the result was
\* computed from the ImageData that is held.
C2_ResultBelongsToHeldImage ==
    (genderResult # null /\ selectedImage # nullObj) => resultOf = selectedImage

\* the acquisition state CameraLive
CameraLive == mounted /\ isCameraMode

\* C3: a camera stream with un-stopped tracks exists if and only if the
\* acquisition state is CameraLive.
C3_StreamOpenIffCameraLive ==
    (liveStreams # {}) <=> CameraLive

\* C4: once the controller is not in CameraLive (after capture, reset or
\* teardown), every stream the environment granted has had its tracks stopped.
C4_StreamsReleasedOutsideCameraLive ==
    \A stream \in 1..nStreams : ~CameraLive => stream \notin liveStreams

\* C5: at most one classification request is outstanding, and while one is
\* outstanding isLoading is true and the Detect Gender button takes no click.
C5_AtMostOneInFlight ==
    /\ Len(inflight) <= 1
    /\ inflight # <<>> => (isLoading /\ ~DetectEnabled)

\* C5 witness: a request is outstanding while, after a reset and a late
\* FileReader completion, a different image is held and the Detect Gender
\* button is rendered.
C5_Witness ==
    /\ Len(inflight) = 1
    /\ resetSinceSubmit
    /\ selectedImage # nullObj /\ selectedImage # inflight[1]
    /\ previewUrl # nullObj /\ ~isCameraMode /\ mounted

\* C6: the Clear / Reset button leaves no ImageData, no preview, no result,
\* no error, camera mode off and no open camera stream, and running
\* resetState twice gives the state that running it once gives.
C6_ResetReturnsToIdle ==
    [][ClickReset =>
          /\ selectedImage' = nullObj /\ previewUrl' = nullObj
          /\ genderResult' = null /\ error' = null
          /\ ~isCameraMode' /\ liveStreams' = {}
          /\ ResetState(ResetState(Cur)) = ResetState(Cur)]_vars

\* C7: captureImage invoked while no camera stream is attached changes none
\* of ImageData, preview, result, error and camera mode, and does not throw.
C7_CaptureWithoutStreamIsNoOp ==
    [][((\E hasFrame \in BOOLEAN : CaptureImage(hasFrame)) /\ srcObject = NoStream)
          => (UNCHANGED <<selectedImage, previewUrl, genderResult, error, isCameraMode>>
              /\ ~threw')]_vars

\* a file the claim calls rejected: larger than 4 MiB, or not of an image type
Rejected(file) == file.size > MaxFileSize \/ ~IsImageType(file.type)

\* C8: a handleImageUpload call with a rejected file keeps the ImageData and
\* preview that were held before the call.
C8_RejectedUploadKeepsImage ==
    [][\A file \in Files :
          (HandleImageUpload(file) /\ Rejected(file))
             => UNCHANGED <<selectedImage, previewUrl>>]_vars

\* C9: handleImageUpload starts reading a file exactly when its type is in
\* the allow-list and its size is at most 4 MiB; a type outside the list
\* gives the invalid-type message, a listed type above 4 MiB the too-large
\* message; the ImageData stored for a file has the file's type as mimeType.
C9_AcceptsExactlyAllowListed ==
    [][/\ \A file \in Files :
             HandleImageUpload(file) =>
                /\ (readers' = Append(readers, file))
                      <=> (file.type \in AcceptList /\ file.size <= MaxFileSize)
                /\ file.type \notin AcceptList => error' = MsgInvalidType
                /\ (file.type \in AcceptList /\ file.size > MaxFileSize)
                      => error' = MsgTooLarge
       /\ \A i \in 1..MaxReaders + 1 :
             (ReaderLoadEnd(i) /\ mounted) => selectedImage'.mimeType = readers[i].type]_vars

\* C10: the promise returned by detectGenderFromImage is never rejected, and
\* a transport failure or a reply without text resolves it to Error.
C10_ClassifyNeverRejects ==
    [][/\ promise' # "rejected"
       /\ \A i \in 1..MaxInflight + 1, reply \in Replies :
             (ClassifyResponse(i, reply) /\ reply.kind # "text") => promise' = "Error"]_vars

\* C11: with no API key configured, no request is ever outstanding, isLoading
\* is never set, handleDetectGender never calls detectGenderFromImage, and
\* detectGenderFromImage itself resolves to Error before building a client.
C11_NoCredentialNoRequest ==
    ~API_KEY =>
       /\ inflight = <<>>
       /\ ~isLoading
       /\ promise = "none"
       /\ \A clientOk \in BOOLEAN : CallDetect(clientOk) = "Error"

\* C11 witness: without a key, Detect Gender was clicked on a held image and
\* only the configuration message was set.
C11_Witness ==
    /\ ~API_KEY /\ mounted
    /\ selectedImage # nullObj
    /\ error = MsgNoKey
    /\ ~isLoading /\ inflight = <<>>
(***************************************************************************)
(* The normalisation on its own: starting with an accepted file loaded and *)
(* submitted, the model replies with any of AllReplies and the user        *)
(* submits again.                                                          *)
(***************************************************************************)
ClassifyInit ==
    \E file \in {f \in Files : FileAccepted(f)} :
       LET image == ImageData(Base64Part(ReadAsDataURL(file)), file.type, file.name)
       IN  /\ API_KEY = TRUE
           /\ mounted = TRUE
           /\ selectedImage = image
           /\ previewUrl = CreateObjectURL(file)
           /\ genderResult = null
           /\ isLoading = TRUE
           /\ error = null
           /\ isCameraMode = FALSE
           /\ srcObject = NoStream
           /\ liveStreams = {}
           /\ nStreams = 0
           /\ pendingMedia = 0
           /\ readers = <<>>
           /\ inflight = <<image>>
           /\ promise = "pending"
           /\ resultOf = nullObj
           /\ resetSinceSubmit = FALSE
           /\ lastReply = NoReply
           /\ threw = FALSE

ClassifyNext ==
    \/ \E reply \in AllReplies : ClassifyResponse(1, reply)
    \/ \E clientOk \in BOOLEAN : HandleDetectGender(clientOk)

ClassifySpec == ClassifyInit /\ [][ClassifyNext]_vars

\* the latest detectGenderFromImage call has resolved, on reply lastReply
Resolved == lastReply # NoReply /\ promise \notin {"none", "pending", "rejected"}

ExactName(k) ==
    CASE k = <<"M","a","l","e">> -> "Male"
      [] k = <<"F","e","m","a","l","e">> -> "Female"
      [] k = <<"I","n","d","e","t","e","r","m","i","n","a","t","e">> -> "Indeterminate"
      [] k = <<"N","o","F","a","c","e","D","e","t","e","c","t","e","d">> -> "NoFaceDetected"

\* C12: a reply text that is one of the four keywords with any whitespace
\* before and after it resolves to that keyword.
C12_ExactKeywordReturned ==
    \A l \in Pads, k \in Keywords, r \in Pads :
       (Resolved /\ lastReply.kind = "text" /\ lastReply.text = l \o k \o r)
          => promise = ExactName(k)

\* C12 witness: the reply " Female\n" resolved to Female, which was
\* committed as the result.
C12_Witness ==
    /\ Resolved
    /\ lastReply.kind = "text"
    /\ lastReply.text = <<" ","F","e","m","a","l","e","\n">>
    /\ promise = "Female"
    /\ genderResult = "Female"

\* case-insensitive containment, for the fallback rules
Contains(text, sub) == Includes(ToLowerCase(text), sub)

\* C13: for a reply text that is no exact keyword, the substring rules apply
\* in the order male, female, indeterminate, no face / nofacedetected; a text
\* containing "female" in any letter case gives Male, and the fallback never
\* gives Female.
C13_FallbackPriority ==
    (Resolved /\ lastReply.kind = "text" /\ Trim(lastReply.text) \notin Keywords)
       => LET t == lastReply.text
              male == Contains(t, <<"m","a","l","e">>)
              female == Contains(t, <<"f","e","m","a","l","e">>)
              indet == Contains(t, <<"i","n","d","e","t","e","r","m","i","n","a","t","e">>)
              noface == \/ Contains(t, <<"n","o"," ","f","a","c","e">>)
                        \/ Contains(t, <<"n","o","f","a","c","e","d","e","t","e","c","t","e","d">>)
          IN  /\ male => promise = "Male"
              /\ female => promise = "Male"
              /\ promise # "Female"
              /\ (~male /\ indet) => promise = "Indeterminate"
              /\ (~male /\ ~indet /\ noface) => promise = "NoFaceDetected"

\* C13 witness: the reply "I believe this is Female." resolved to Male.
C13_Witness ==
    /\ Resolved
    /\ lastReply.kind = "text"
    /\ lastReply.text = <<"I"," ","b","e","l","i","e","v","e"," ","t","h","i","s"," ",
                          "i","s"," ","F","e","m","a","l","e",".">>
    /\ promise = "Male"
    /\ genderResult = "Male"
(***************************************************************************)
(* Progress.  The environment settles what it was asked: a pending         *)
(* generateContent call, FileReader and getUserMedia request each end in   *)
(* a reply or a failure.  The user is under no obligation to click.        *)
(***************************************************************************)
ReaderSettles == \E i \in 1..MaxReaders + 1 : ReaderLoadEnd(i) \/ ReaderError(i)
MediaSettles == CameraGranted \/ CameraDenied

LiveSpec ==
    /\ Init /\ [][Next]_vars
    /\ WF_vars(AnyResponse)
    /\ WF_vars(ReaderSettles)
    /\ WF_vars(MediaSettles)

\* C14: whenever the mounted component is in Submitted (isLoading is true),
\* isLoading eventually becomes false again.
C14_SubmittedEventuallyLeaves ==
    (mounted /\ isLoading) ~> (~isLoading \/ ~mounted)
\* C15: storing an uploaded file's ImageData (reader.onloadend) happens only
\* with no camera stream open, and camera mode and a held ImageData never
\* coexist.
C15_SourcesMutuallyExclusive ==
    [][/\ (mounted /\ \E i \in 1..MaxReaders + 1 : ReaderLoadEnd(i)) => liveStreams = {}
       /\ ~(isCameraMode' /\ selectedImage' # nullObj)]_vars

\* C16: startCamera clears ImageData, result and error and requests a
\* stream; a grant leaves camera mode on with the granted stream attached
\* and live; a denial leaves the camera message, camera mode off, no
\* ImageData and no open stream.
C16_OpenCameraOutcomes ==
    [][/\ StartCamera =>
             /\ selectedImage' = nullObj /\ genderResult' = null /\ error' = null
             /\ pendingMedia' = pendingMedia + 1
       /\ (mounted /\ CameraGranted) =>
             /\ isCameraMode'
             /\ srcObject' = nStreams' /\ srcObject' \in liveStreams'
       /\ (mounted /\ CameraDenied) =>
             /\ error' = MsgCamera /\ ~isCameraMode'
             /\ selectedImage' = nullObj /\ liveStreams' = {}]_vars
\* C17 as claimed: while a classification is in flight, genderResult is null
\* and error is null.
C17_ResultAndErrorClearInFlight ==
    inflight # <<>> => (genderResult = null /\ error = null)

\* C17 amended: while a classification is in flight genderResult is null,
\* and the submission itself clears the error; an error of a file read or a
\* camera request that settles meanwhile may be set.
C17_ResultUnsetInFlight ==
    [][/\ inflight' # <<>> => genderResult' = null
       /\ Len(inflight') > Len(inflight) => error' = null]_vars

\* C17 witness: a classification is in flight, no result is shown, and a
\* file read that failed meanwhile has set its message.
C17_Witness ==
    /\ mounted /\ isLoading /\ inflight # <<>>
    /\ genderResult = null
    /\ error = MsgReadFailed
\* C18: a resolved classification is one of Male, Female, Indeterminate,
\* NoFaceDetected, Error and never null; a reply text that is no keyword and
\* contains none of the fallback substrings, the empty text included,
\* resolves to Indeterminate.
C18_TotalWithIndeterminateDefault ==
    Resolved =>
       /\ promise \in {"Male", "Female", "Indeterminate", "NoFaceDetected", "Error"}
       /\ promise # null
       /\ LET t == lastReply.text
          IN  ( /\ lastReply.kind = "text"
                /\ Trim(t) \notin Keywords
                /\ ~Contains(t, <<"m","a","l","e">>)
                /\ ~Contains(t, <<"i","n","d","e","t","e","r","m","i","n","a","t","e">>)
                /\ ~Contains(t, <<"n","o"," ","f","a","c","e">>)
                /\ ~Contains(t, <<"n","o","f","a","c","e","d","e","t","e","c","t","e","d">>) )
              => promise = "Indeterminate"

\* C18 witness: the empty reply text resolved to Indeterminate, which was
\* committed as the result.
C18_Witness ==
    /\ Resolved
    /\ lastReply.kind = "text" /\ lastReply.text = <<>>
    /\ promise = "Indeterminate"
    /\ genderResult = "Indeterminate" /\ error = null

\* C19: genderResult is never Error, and when a classification resolves to
\* Error the generic failure message is set and genderResult is null.
C19_ErrorNeverStored ==
    [][/\ genderResult' # "Error"
       /\ genderResult' \in {null, "Male", "Female", "Indeterminate", "NoFaceDetected"}
       /\ (mounted /\ Len(inflight') < Len(inflight) /\ promise' = "Error")
             => (error' = MsgDetectFailed /\ genderResult' = null)]_vars

\* C19 witness: a transport failure resolved to Error; the message is set
\* and no result is shown.
C19_Witness ==
    /\ mounted
    /\ lastReply.kind = "transportFailure" /\ promise = "Error"
    /\ error = MsgDetectFailed
    /\ genderResult = null /\ ~isLoading

\* C20: a request is issued only with an ImageData held and camera mode off,
\* and for the ImageData held at that moment; handleDetectGender without an
\* ImageData sets the select-an-image message, and a click that sets a
\* message issues no request.
C20_RequestOnlyFromSelected ==
    [][/\ inflight' # inflight /\ Len(inflight') >= Len(inflight) =>
             /\ selectedImage # nullObj /\ ~isCameraMode
             /\ inflight' = Append(inflight, selectedImage)
       /\ EarlyReturn(nullObj) = MsgNoImage
       /\ \A clientOk \in BOOLEAN :
             (HandleDetectGender(clientOk) /\ EarlyReturn(selectedImage) # null)
                => (inflight' = inflight /\ error' = EarlyReturn(selectedImage))]_vars

\* C20 witness: a request for the held ImageData is outstanding, camera
\* mode is off.
C20_Witness ==
    /\ mounted /\ ~isCameraMode
    /\ selectedImage # nullObj
    /\ inflight = <<selectedImage>>
    /\ promise = "pending"
====
